---- MODULE Spec2Model ----
(***************************************************************************)
(* A model of the FastAPI notes service of powerbuilder-realtime-notes     *)
(* (main.py): the users and notes tables, JWT issuance and validation,     *)
(* the authorization dependency, the note endpoints, and the list of       *)
(* active WebSocket connections with its broadcast loop.                   *)
(*                                                                         *)
(* Sync endpoints (signup, login, get_notes) run in worker threads; each   *)
(* is one action, and signup is also given statement by statement, for     *)
(* the requests whose SELECT and INSERT interleave with another's.  The    *)
(* async endpoints (add_note, delete_note) run on the event loop: from     *)
(* the request to the first awaited send_text, and from one awaited        *)
(* send_text to the next, nothing else runs, so each such stretch is one   *)
(* action, and WebSocket connects and disconnects interleave between       *)
(* them.                                                                   *)
(***************************************************************************)
EXTENDS Integers, Sequences, FiniteSets, TLC

VARIABLES
    users,              \* rows of table users, in rowid order
    notes,              \* rows of table notes, in rowid order
    noteSeq,            \* sqlite_sequence entry of notes (AUTOINCREMENT)
    now,                \* the clock, in ticks
    issued,             \* the tokens login has returned so far
    websockets,         \* state of each WebSocket object
    active_connections, \* the module-level list active_connections
    calls,              \* the requests in flight, one per slot
    created,            \* history: what each note id was created with,
                        \* by whom, and whether it has been deleted since
    signedUp,           \* history: the password each username signed up with
    response            \* the last HTTP exchange completed

vars == <<users, notes, noteSeq, now, issued, websockets, active_connections,
          calls, created, signedUp, response>>

----------------------------------------------------------------------------
(* Bounds of the model *)

MaxNotes == 2           \* notes inserted in one behaviour
MaxIssued == 2          \* tokens held by clients at one time
MaxHeld == 1            \* the same, credentials and guard scenarios
MaxConnsB == 3          \* WebSocket objects, broadcast scenario
MaxCallsB == 1          \* concurrent async requests, broadcast scenario
MaxNotesB == 1          \* notes inserted, broadcast scenario
MaxThreads == 2         \* signup requests in flight at one time
MaxConnsS == 2          \* WebSocket objects, stalled-peer scenario
MaxCallsD == 2          \* concurrent async requests, delete scenario
TicksPerSecond == 2     \* clock resolution below one second
MaxHours == 1           \* whole hours the clock may reach
Slack == 2              \* ticks observed after each whole hour

Usernames == {"alice", "bob"}
Passwords == {"pw1", "pw2"}
Titles == {"x"}
Contents == {"y"}
Salts == {"salt1"}

(* Program constants *)

SECRET_KEY == "your_secret_key_here"
OtherKey == "not_the_secret_key"
HourSeconds == 3600
HourTicks == HourSeconds * TicksPerSecond

(* The instants at which the clock is observed: up to Slack ticks after
   each whole hour, so that both sides of an expiry instant are sampled. *)
Instants == {t \in 0..(MaxHours * HourTicks + Slack) : t % HourTicks <= Slack}

----------------------------------------------------------------------------
(* Sequence helpers *)

Range(s) == {s[k] : k \in 1..Len(s)}

Count(x, s) == Cardinality({k \in 1..Len(s) : s[k] = x})

\* list.remove(x): drops the first occurrence of x
ListRemove(s, x) ==
    LET k == CHOOSE j \in 1..Len(s) :
                 s[j] = x /\ \A m \in 1..(j - 1) : s[m] # x
    IN  [m \in 1..(Len(s) - 1) |-> IF m < k THEN s[m] ELSE s[m + 1]]

----------------------------------------------------------------------------
(* passlib bcrypt: a salted hash, verified by recomputing with the salt
   the hash embeds *)

bcrypt_hash_salted(password, salt) ==
    [salt |-> salt, digest |-> <<salt, password>>]

\* mutant of bcrypt_verify: only the salt is compared
bcrypt_verify_SaltOnly(password, hash) ==
    bcrypt_hash_salted(password, hash.salt).salt = hash.salt

bcrypt_verify(password, hash) ==
    bcrypt_hash_salted(password, hash.salt) = hash

----------------------------------------------------------------------------
(* PyJWT, HS256 *)

\* the MAC over header and payload: a function of key and message
HS256(key, sub, exp) == <<key, sub, exp>>

\* jwt.encode: a datetime "exp" becomes whole seconds since the epoch
\* (timegm(utctimetuple())), so the sub-second part is dropped
jwt_encode(payload, key) ==
    LET seconds == payload.exp \div TicksPerSecond
    IN  [typ |-> "JWT", sub |-> payload.sub, exp |-> seconds,
         sig |-> HS256(key, payload.sub, seconds)]

\* a string that is no three-segment JWT
Garbage == [typ |-> "garbage", sub |-> "", exp |-> 0, sig |-> <<"", "", 0>>]

NoToken == [typ |-> "none", sub |-> "", exp |-> 0, sig |-> <<"", "", 0>>]

\* mutant of jwt_decode: the exp claim is looked at before the signature
jwt_decode_ExpiryFirst(token, key, t) ==
    IF token.typ # "JWT"
      THEN [error |-> "InvalidTokenError", sub |-> ""]
    ELSE IF token.exp * TicksPerSecond <= t
      THEN [error |-> "ExpiredSignatureError", sub |-> ""]
    ELSE IF token.sig # HS256(key, token.sub, token.exp)
      THEN [error |-> "InvalidTokenError", sub |-> ""]
    ELSE [error |-> "", sub |-> token.sub]

\* jwt.decode(token, key, algorithms=["HS256"]) at instant t: the segments
\* are parsed and the signature verified first, the exp claim after it
jwt_decode(token, key, t) ==
    IF token.typ # "JWT"
      THEN [error |-> "InvalidTokenError", sub |-> ""]
    ELSE IF token.sig # HS256(key, token.sub, token.exp)
      THEN [error |-> "InvalidTokenError", sub |-> ""]
    ELSE IF token.exp * TicksPerSecond <= t
      THEN [error |-> "ExpiredSignatureError", sub |-> ""]
    ELSE [error |-> "", sub |-> token.sub]

----------------------------------------------------------------------------
(* The Authorization header.  A header is absent, or a string; a string is
   a sequence of atoms, each a maximal run of whitespace (Space) or of
   non-whitespace characters (a word or a token). *)

Word(text) == [typ |-> "word", text |-> text]
Space == [typ |-> "space"]

NoHeader == [present |-> FALSE, value |-> <<>>]
HeaderOf(value) == [present |-> TRUE, value |-> value]

\* str.split(): the runs of non-whitespace characters
split(value) == SelectSeq(value, LAMBDA a : a.typ # "space")

\* str.lower() of one part
lower(part) ==
    IF part.typ # "word" THEN "<token>"
    ELSE CASE part.text = "Bearer" -> "bearer"
           [] part.text = "BEARER" -> "bearer"
           [] part.text = "bearer" -> "bearer"
           [] part.text = "Token" -> "token"
           [] OTHER -> part.text

\* mutant of Falsy: `authorization is None`
Falsy_NoneOnly(authorization) == ~authorization.present

\* `not authorization`: None and the empty string are both falsy
Falsy(authorization) ==
    ~authorization.present \/ Len(authorization.value) = 0

Fail(status, detail) == [status |-> status, detail |-> detail, sub |-> ""]

\* get_current_user at instant t
get_current_user(authorization, t) ==
    IF Falsy(authorization)
      THEN Fail(401, "Authorization header missing")
    ELSE LET parts == split(authorization.value) IN
      IF Len(parts) # 2 \/ lower(parts[1]) # "bearer"
        THEN Fail(401, "Invalid authorization header format")
      ELSE LET payload == jwt_decode(parts[2], SECRET_KEY, t) IN
        IF payload.error = "ExpiredSignatureError"
          THEN Fail(401, "Token has expired")
        ELSE IF payload.error = "InvalidTokenError"
          THEN Fail(401, "Invalid token")
        ELSE [status |-> 200, detail |-> "", sub |-> payload.sub]

----------------------------------------------------------------------------
(* HTTP exchanges *)

NoArgs == [username |-> "", password |-> "", title |-> "", content |-> "",
           note_id |-> 0]
UserArgs(username, password) ==
    [NoArgs EXCEPT !.username = username, !.password = password]
NoteArgs(title, content) ==
    [NoArgs EXCEPT !.title = title, !.content = content]
IdArgs(note_id) == [NoArgs EXCEPT !.note_id = note_id]

NoBody == [message |-> "", access_token |-> NoToken, notes |-> <<>>]
Message(text) == [NoBody EXCEPT !.message = text]

\* what a handler decides: the status, the detail of an HTTPException,
\* the JSON body of a success
Raise(status, detail) ==
    [status |-> status, detail |-> detail, body |-> NoBody]
Return(body) == [status |-> 200, detail |-> "", body |-> body]

\* the exchange as the client sees it, and the instant it completed; n
\* alternates so that two equal exchanges in a row are two exchanges
Exchange(op, authorization, args, out) ==
    [n |-> 1 - response.n, at |-> now, op |-> op,
     authorization |-> authorization, args |-> args, status |-> out.status,
     detail |-> out.detail, body |-> out.body]

----------------------------------------------------------------------------
(* SQL *)

\* SELECT * FROM users WHERE username = ?
SelectUsers(username) == SelectSeq(users, LAMBDA u : u.username = username)

\* SELECT id, title, content FROM notes WHERE user_id = ?  (a table scan,
\* so the rows come in rowid order)
SelectNotesOf(user_id) == SelectSeq(notes, LAMBDA r : r.user_id = user_id)

\* mutant of SelectNote: the owner is left out of the WHERE clause
SelectNote_AnyOwner(note_id, user_id) ==
    SelectSeq(notes, LAMBDA r : r.id = note_id)

\* SELECT * FROM notes WHERE id = ? AND user_id = ?
SelectNote(note_id, user_id) ==
    SelectSeq(notes, LAMBDA r : r.id = note_id /\ r.user_id = user_id)

\* mutant of DeleteFromNotes: WHERE id <= ? in place of WHERE id = ?
DeleteFromNotes_UpTo(note_id) == SelectSeq(notes, LAMBDA r : r.id > note_id)

\* DELETE FROM notes WHERE id = ?
DeleteFromNotes(note_id) == SelectSeq(notes, LAMBDA r : r.id # note_id)

\* mutant of InsertIntoNotes: title and content bound the wrong way round
InsertIntoNotes_Swapped(user_id, title, content) ==
    Append(notes, [id |-> noteSeq + 1, title |-> content, content |-> title,
                   user_id |-> user_id])

\* INSERT INTO notes (user_id, title, content): AUTOINCREMENT gives the id
\* after the largest one ever used
InsertIntoNotes(user_id, title, content) ==
    Append(notes, [id |-> noteSeq + 1, title |-> title, content |-> content,
                   user_id |-> user_id])

\* INSERT INTO users (username, password_hash); no user row is ever deleted
InsertIntoUsers(username, password_hash) ==
    Append(users, [id |-> Len(users) + 1, username |-> username,
                   password_hash |-> password_hash])

----------------------------------------------------------------------------
(* POST /signup *)

\* mutant of signup: an existing username gets the new password
signup_Upsert(user, salt) ==
    IF Len(SelectUsers(user.username)) > 0
      THEN [out |-> Raise(400, "Username already exists"),
            users |-> [k \in 1..Len(users) |->
                         IF users[k].username = user.username
                           THEN [users[k] EXCEPT !.password_hash =
                                   bcrypt_hash_salted(user.password, salt)]
                           ELSE users[k]]]
    ELSE [out |-> Return(Message("User registered successfully")),
          users |-> InsertIntoUsers(user.username,
                                    bcrypt_hash_salted(user.password, salt))]

signup(user, salt) ==
    IF Len(SelectUsers(user.username)) > 0
      THEN [out |-> Raise(400, "Username already exists"), users |-> users]
    ELSE [out |-> Return(Message("User registered successfully")),
          users |-> InsertIntoUsers(user.username,
                                    bcrypt_hash_salted(user.password, salt))]

Signup(user, salt) ==
    LET r == signup(user, salt) IN
    /\ users' = r.users
    /\ signedUp' = IF r.out.status = 200
                     THEN signedUp \cup {<<user.username, user.password>>}
                     ELSE signedUp
    /\ response' = Exchange("signup", NoHeader, user, r.out)
    /\ UNCHANGED <<notes, noteSeq, now, issued, websockets,
                   active_connections, calls, created>>

(* POST /login *)

\* mutant of login: the subject is the username of the request and the
\* expiry is a day ahead
login_DayAhead(user) ==
    LET rows == SelectUsers(user.username) IN
    IF Len(rows) = 0 \/ ~bcrypt_verify(user.password, rows[1].password_hash)
      THEN Raise(401, "Invalid username or password")
    ELSE LET payload == [sub |-> user.username, exp |-> now + 24 * HourTicks]
         IN  Return([NoBody EXCEPT
                       !.access_token = jwt_encode(payload, SECRET_KEY)])

\* mutant of login: a username without a row is given a token all the same
login_AnyUser(user) ==
    LET rows == SelectUsers(user.username) IN
    IF Len(rows) > 0 /\ ~bcrypt_verify(user.password, rows[1].password_hash)
      THEN Raise(401, "Invalid username or password")
    ELSE LET payload == [sub |-> user.username, exp |-> now + HourTicks]
         IN  Return([NoBody EXCEPT
                       !.access_token = jwt_encode(payload, SECRET_KEY)])

login(user) ==
    LET rows == SelectUsers(user.username) IN
    IF Len(rows) = 0 \/ ~bcrypt_verify(user.password, rows[1].password_hash)
      THEN Raise(401, "Invalid username or password")
    ELSE LET payload == [sub |-> rows[1].username, exp |-> now + HourTicks]
         IN  Return([NoBody EXCEPT
                       !.access_token = jwt_encode(payload, SECRET_KEY)])

\* The client keeps the token; clients hold at most `cap` tokens between
\* them, so a token over the cap displaces the token `dropped`.
Login(user, dropped, cap) ==
    LET out == login(user)
        kept == issued \ {dropped}
    IN
    /\ IF out.status = 200
         THEN /\ Cardinality(kept \cup {out.body.access_token}) <= cap
              /\ dropped \in issued
                   => Cardinality(issued \cup {out.body.access_token}) > cap
              /\ issued' = kept \cup {out.body.access_token}
         ELSE /\ dropped \notin issued
              /\ issued' = issued
    /\ response' = Exchange("login", NoHeader, user, out)
    /\ UNCHANGED <<users, notes, noteSeq, now, websockets,
                   active_connections, calls, created, signedUp>>

(* GET /notes *)

get_notes(authorization) ==
    LET auth == get_current_user(authorization, now) IN
    IF auth.status # 200 THEN Raise(auth.status, auth.detail)
    ELSE LET rows == SelectUsers(auth.sub) IN
      IF Len(rows) = 0 THEN Raise(401, "User not found")
      ELSE LET found == SelectNotesOf(rows[1].id) IN
        Return([NoBody EXCEPT !.notes =
                  [k \in 1..Len(found) |->
                     [id |-> found[k].id, title |-> found[k].title,
                      content |-> found[k].content]]])

GetNotes(authorization) ==
    /\ response' = Exchange("get_notes", authorization, NoArgs,
                            get_notes(authorization))
    /\ UNCHANGED <<users, notes, noteSeq, now, issued, websockets,
                   active_connections, calls, created, signedUp>>

----------------------------------------------------------------------------
(* The WebSocket endpoint.  A WebSocket object is "new" until its handshake
   is accepted, "open" while its peer is there, "stalled" while its peer is
   there and reads nothing, "gone" once the peer has closed or the transport
   has dropped and the disconnect has not yet reached the receive loop,
   "closed" once the receive loop has ended. *)

\* await websocket.accept(); active_connections.append(websocket)
WsConnect(c) ==
    /\ websockets[c] = "new"
    /\ websockets' = [websockets EXCEPT ![c] = "open"]
    /\ active_connections' = Append(active_connections, c)
    /\ UNCHANGED <<users, notes, noteSeq, now, issued, calls, created,
                   response, signedUp>>

\* the peer closes, or the transport drops
PeerGone(c) ==
    /\ websockets[c] = "open"
    /\ websockets' = [websockets EXCEPT ![c] = "gone"]
    /\ UNCHANGED <<users, notes, noteSeq, now, issued, active_connections,
                   calls, created, signedUp, response>>

\* receive_text() raises WebSocketDisconnect:
\* active_connections.remove(websocket)
WsDisconnect(c) ==
    /\ websockets[c] = "gone"
    /\ websockets' = [websockets EXCEPT ![c] = "closed"]
    /\ active_connections' = ListRemove(active_connections, c)
    /\ UNCHANGED <<users, notes, noteSeq, now, issued, calls, created,
                   response, signedUp>>

\* receive_text() raises something that is no WebSocketDisconnect (a binary
\* frame has no "text" key: KeyError): `except WebSocketDisconnect` does not
\* match, the coroutine ends and the list is left as it is
WsReceiveFails(c) ==
    /\ websockets[c] = "open"
    /\ websockets' = [websockets EXCEPT ![c] = "closed"]
    /\ UNCHANGED <<users, notes, noteSeq, now, issued, active_connections,
                   calls, created, signedUp, response>>

\* the peer stops reading: its receive_text stays pending, and a send_text
\* to it does not return
PeerStalls(c) ==
    /\ websockets[c] = "open"
    /\ websockets' = [websockets EXCEPT ![c] = "stalled"]
    /\ UNCHANGED <<users, notes, noteSeq, now, issued, active_connections,
                   calls, created, signedUp, response>>

----------------------------------------------------------------------------
(* broadcast_message.  `for connection in active_connections` keeps an
   index into the list itself and reads the list again at every iteration;
   `await connection.send_text(message)` is where the coroutine may be
   suspended, with the connection already taken from the list. *)

NoMessage == [text |-> "", note_id |-> 0]
NewNoteAdded == [text |-> "New note added", note_id |-> 0]
NoteDeleted(note_id) ==
    [text |-> "Note with ID {note_id} deleted", note_id |-> note_id]

\* A call holds the request, the loop index i, the connection cur whose
\* send_text is awaited and, as history, the connections whose send_text
\* has returned (sent), the list as it was when the broadcast began
\* (snapshot) and the connections closed by then (closed).
ClosedNow == {c \in DOMAIN websockets : websockets[c] = "closed"}

IdleCall ==
    [pc |-> "idle", op |-> "", authorization |-> NoHeader, args |-> NoArgs,
     message |-> NoMessage, reply |-> "", i |-> 0, cur |-> 0, sent |-> <<>>,
     snapshot |-> <<>>, closed |-> {}]

\* the list iterator's next item at index i; 0 stands for StopIteration
broadcast_next(i) ==
    IF i < Len(active_connections) THEN active_connections[i + 1] ELSE 0

\* The coroutine of slot r runs on from loop index i until it is suspended
\* in the next send_text or the loop ends and the endpoint returns.
RunFrom(r, call, i) ==
    IF broadcast_next(i) = 0
      THEN /\ calls' = [calls EXCEPT ![r] = IdleCall]
           /\ response' = Exchange(call.op, call.authorization, call.args,
                                   Return(Message(call.reply)))
      ELSE /\ calls' = [calls EXCEPT ![r] =
                          [call EXCEPT !.pc = "sending", !.i = i,
                                       !.cur = broadcast_next(i)]]
           /\ UNCHANGED response

\* send_text returns: the peer is there, or it is not and the transport
\* took the frame all the same
SendReturns(r) ==
    /\ calls[r].pc = "sending"
    /\ websockets[calls[r].cur] # "stalled"
    /\ RunFrom(r, [calls[r] EXCEPT !.sent = Append(@, calls[r].cur)],
               calls[r].i + 1)
    /\ UNCHANGED <<users, notes, noteSeq, now, issued, websockets,
                   active_connections, created, signedUp>>

\* send_text raises: nothing catches it in broadcast_message or in the
\* endpoint, so the request ends as a 500
SendRaises(r) ==
    /\ calls[r].pc = "sending"
    /\ websockets[calls[r].cur] \in {"gone", "closed"}
    /\ calls' = [calls EXCEPT ![r] = IdleCall]
    /\ response' = Exchange(calls[r].op, calls[r].authorization,
                            calls[r].args,
                            Raise(500, "Internal Server Error"))
    /\ UNCHANGED <<users, notes, noteSeq, now, issued, websockets,
                   active_connections, created, signedUp>>

----------------------------------------------------------------------------
(* POST /notes *)

\* mutant of add_note: the note goes to the first user of the table
add_note_FirstUser(authorization, note) ==
    LET auth == get_current_user(authorization, now) IN
    IF auth.status # 200
      THEN [out |-> Raise(auth.status, auth.detail), committed |-> FALSE,
            notes |-> notes]
    ELSE LET rows == SelectUsers(auth.sub) IN
      IF Len(rows) = 0
        THEN [out |-> Raise(401, "User not found"), committed |-> FALSE,
              notes |-> notes]
      ELSE [out |-> Return(Message("Note added successfully")),
            committed |-> TRUE,
            notes |-> InsertIntoNotes(users[1].id, note.title, note.content)]

\* mutant of add_note: a request that fails authorization leaves a note
\* owned by nobody
add_note_Anonymous(authorization, note) ==
    LET auth == get_current_user(authorization, now) IN
    IF auth.status # 200
      THEN [out |-> Raise(auth.status, auth.detail), committed |-> FALSE,
            notes |-> InsertIntoNotes(0, note.title, note.content)]
    ELSE LET rows == SelectUsers(auth.sub) IN
      IF Len(rows) = 0
        THEN [out |-> Raise(401, "User not found"), committed |-> FALSE,
              notes |-> InsertIntoNotes(0, note.title, note.content)]
      ELSE [out |-> Return(Message("Note added successfully")),
            committed |-> TRUE,
            notes |-> InsertIntoNotes(rows[1].id, note.title, note.content)]

add_note(authorization, note) ==
    LET auth == get_current_user(authorization, now) IN
    IF auth.status # 200
      THEN [out |-> Raise(auth.status, auth.detail), committed |-> FALSE,
            notes |-> notes]
    ELSE LET rows == SelectUsers(auth.sub) IN
      IF Len(rows) = 0
        THEN [out |-> Raise(401, "User not found"), committed |-> FALSE,
              notes |-> notes]
      ELSE [out |-> Return(Message("Note added successfully")),
            committed |-> TRUE,
            notes |-> InsertIntoNotes(rows[1].id, note.title, note.content)]

AddNote(r, authorization, note) ==
    LET res == add_note(authorization, note) IN
    /\ calls[r].pc = "idle"
    /\ notes' = res.notes
    /\ IF res.committed
         THEN /\ noteSeq' = noteSeq + 1
              /\ created' = Append(created,
                     [title |-> note.title, content |-> note.content,
                      owner |-> get_current_user(authorization, now).sub,
                      deleted |-> FALSE])
              /\ RunFrom(r, [IdleCall EXCEPT
                               !.op = "add_note",
                               !.authorization = authorization,
                               !.args = note,
                               !.message = NewNoteAdded,
                               !.reply = res.out.body.message,
                               !.snapshot = active_connections,
                               !.closed = ClosedNow], 0)
         ELSE /\ response' = Exchange("add_note", authorization, note, res.out)
              /\ UNCHANGED <<noteSeq, created, calls>>
    /\ UNCHANGED <<users, now, issued, websockets, active_connections, signedUp>>

(* DELETE /notes/{note_id} *)

\* mutant of delete_note: the event goes out for a note that was not found
delete_note_NotifyAlways(authorization, note_id) ==
    LET auth == get_current_user(authorization, now) IN
    IF auth.status # 200
      THEN [out |-> Raise(auth.status, auth.detail), committed |-> FALSE,
            notes |-> notes]
    ELSE LET rows == SelectUsers(auth.sub) IN
      IF Len(rows) = 0
        THEN [out |-> Raise(401, "User not found"), committed |-> FALSE,
              notes |-> notes]
      ELSE IF Len(SelectNote(note_id, rows[1].id)) = 0
        THEN [out |-> Return(Message("Note deleted successfully")),
              committed |-> TRUE, notes |-> notes]
      ELSE [out |-> Return(Message("Note deleted successfully")),
            committed |-> TRUE, notes |-> DeleteFromNotes(note_id)]

delete_note(authorization, note_id) ==
    LET auth == get_current_user(authorization, now) IN
    IF auth.status # 200
      THEN [out |-> Raise(auth.status, auth.detail), committed |-> FALSE,
            notes |-> notes]
    ELSE LET rows == SelectUsers(auth.sub) IN
      IF Len(rows) = 0
        THEN [out |-> Raise(401, "User not found"), committed |-> FALSE,
              notes |-> notes]
      ELSE IF Len(SelectNote(note_id, rows[1].id)) = 0
        THEN [out |-> Raise(404, "Note not found or unauthorized"),
              committed |-> FALSE, notes |-> notes]
      ELSE [out |-> Return(Message("Note deleted successfully")),
            committed |-> TRUE, notes |-> DeleteFromNotes(note_id)]

DeleteNote(r, authorization, args) ==
    LET res == delete_note(authorization, args.note_id) IN
    /\ calls[r].pc = "idle"
    /\ notes' = res.notes
    /\ IF res.committed
         THEN /\ created' = [created EXCEPT ![args.note_id].deleted = TRUE]
              /\ RunFrom(r, [IdleCall EXCEPT
                               !.op = "delete_note",
                               !.authorization = authorization,
                               !.args = args,
                               !.message = NoteDeleted(args.note_id),
                               !.reply = res.out.body.message,
                               !.snapshot = active_connections,
                               !.closed = ClosedNow], 0)
         ELSE /\ response' = Exchange("delete_note", authorization, args,
                                      res.out)
              /\ UNCHANGED <<calls, created>>
    /\ UNCHANGED <<users, noteSeq, now, issued, websockets,
                   active_connections, signedUp>>

----------------------------------------------------------------------------
(* POST /signup as the thread pool runs it.  A sync endpoint runs in a
   worker thread, each request on a database connection of its own: between
   the SELECT of one signup and its INSERT (bcrypt.hash comes in between)
   the statements of other requests run.  Signup above is the thread that
   runs from SELECT to commit with no other statement in between. *)

\* INSERT INTO users: username is UNIQUE, so the INSERT of a username that
\* has a row by now raises sqlite3.IntegrityError, which nothing catches
signup_insert(user, salt) ==
    IF Len(SelectUsers(user.username)) > 0
      THEN [out |-> Raise(500, "Internal Server Error"), users |-> users]
    ELSE [out |-> Return(Message("User registered successfully")),
          users |-> InsertIntoUsers(user.username,
                                    bcrypt_hash_salted(user.password, salt))]

\* the SELECT and the `if cursor.fetchone()`
SignupSelect(r, user) ==
    /\ calls[r].pc = "idle"
    /\ IF Len(SelectUsers(user.username)) > 0
         THEN /\ response' = Exchange("signup", NoHeader, user,
                                      Raise(400, "Username already exists"))
              /\ UNCHANGED calls
         ELSE /\ calls' = [calls EXCEPT ![r] =
                             [IdleCall EXCEPT !.pc = "hashing",
                                              !.op = "signup",
                                              !.args = user]]
              /\ UNCHANGED response
    /\ UNCHANGED <<users, notes, noteSeq, now, issued, websockets,
                   active_connections, created, signedUp>>

\* bcrypt.hash, the INSERT and the commit
SignupInsert(r, salt) ==
    LET res == signup_insert(calls[r].args, salt) IN
    /\ calls[r].pc = "hashing"
    /\ users' = res.users
    /\ signedUp' = IF res.out.status = 200
                     THEN signedUp \cup {<<calls[r].args.username,
                                            calls[r].args.password>>}
                     ELSE signedUp
    /\ response' = Exchange("signup", NoHeader, calls[r].args, res.out)
    /\ calls' = [calls EXCEPT ![r] = IdleCall]
    /\ UNCHANGED <<notes, noteSeq, now, issued, websockets,
                   active_connections, created>>

----------------------------------------------------------------------------
(* The clock *)

Tick ==
    /\ \E t \in Instants : t > now /\ now' = t
    /\ UNCHANGED <<users, notes, noteSeq, issued, websockets,
                   active_connections, calls, created, response, signedUp>>

----------------------------------------------------------------------------
(* What clients send *)

Bearer(token) == HeaderOf(<<Word("Bearer"), Space, token>>)

\* an issued token with its subject rewritten and its signature kept
Resubjected == {[t EXCEPT !.sub = u] : t \in issued, u \in Usernames} \ issued

\* an issued token with its expiry pushed out and its signature kept
Extended == {[t EXCEPT !.exp = @ + HourSeconds] : t \in issued} \ issued

\* a token signed now with another key
Missigned ==
    {jwt_encode([sub |-> u, exp |-> now + HourTicks], OtherKey) : u \in Usernames}

\* a token signed now with the server's key (SECRET_KEY has a default in the
\* source) for a username that has no row in users
Stray ==
    {jwt_encode([sub |-> u, exp |-> now + HourTicks], SECRET_KEY) :
        u \in {v \in Usernames : Len(SelectUsers(v)) = 0}}

Tokens == issued \cup Resubjected \cup Extended \cup Missigned \cup {Garbage}

\* the headers of the notes scenario: well-formed, with any token
Headers == {NoHeader} \cup {Bearer(t) : t \in issued \cup Resubjected}

\* the headers of the guard scenario: no header, the empty header, the
\* well-formed header with any token and the wrong shapes around a token
\* that login issued
Misshapen(token) ==
    { HeaderOf(<<token>>),
      HeaderOf(<<Word("Token"), Space, token>>),
      HeaderOf(<<Word("Bearer"), Space, token, Space, Word("Bearer")>>) }

Cased(token) ==
    { HeaderOf(<<Word("bearer"), Space, token>>),
      HeaderOf(<<Word("BEARER"), Space, Space, token>>) }

AllHeaders ==
    {NoHeader, HeaderOf(<<>>), HeaderOf(<<Word("Bearer")>>)}
      \cup {Bearer(t) : t \in Tokens}
      \cup UNION {Misshapen(t) \cup Cased(t) : t \in issued}

----------------------------------------------------------------------------
(* Initial state: the tables as initialize_database leaves a fresh
   notes.db, no connection, no request *)

NoExchange ==
    [n |-> 0, at |-> 0, op |-> "", authorization |-> NoHeader,
     args |-> NoArgs, status |-> 0, detail |-> "", body |-> NoBody]

InitWith(conns, slots) ==
    /\ users = <<>>
    /\ notes = <<>>
    /\ noteSeq = 0
    /\ now = 0
    /\ issued = {}
    /\ websockets = [c \in conns |-> "new"]
    /\ active_connections = <<>>
    /\ calls = [r \in slots |-> IdleCall]
    /\ created = <<>>
    /\ signedUp = {}
    /\ response = NoExchange

Conns == DOMAIN websockets
Slots == DOMAIN calls

(* The notes service: two users, well-formed headers, one WebSocket
   listening, the clock at rest *)

Init == InitWith({1}, {1})

Next ==
    \/ \E u \in Usernames : Signup(UserArgs(u, "pw1"), "salt1")
    \/ \E u \in Usernames, d \in issued \cup {NoToken} :
          Login(UserArgs(u, "pw1"), d, MaxIssued)
    \/ \E h \in Headers : GetNotes(h)
    \/ \E r \in Slots, h \in Headers, t \in Titles, c \in Contents :
          noteSeq < MaxNotes /\ AddNote(r, h, NoteArgs(t, c))
    \/ \E r \in Slots, h \in Headers, k \in 1..(MaxNotes + 1) :
          DeleteNote(r, h, IdArgs(k))
    \/ \E r \in Slots : SendReturns(r)
    \/ \E r \in Slots : SendRaises(r)
    \/ \E c \in Conns : WsConnect(c)
    \/ \E c \in Conns : PeerGone(c)
    \/ \E c \in Conns : WsDisconnect(c)
    \/ \E c \in Conns : WsReceiveFails(c)

Spec == Init /\ [][Next]_vars

(* Credentials: signup and login under every username and password, and
   the clock *)

InitCred == InitWith({}, {})

NextCred ==
    \/ \E u \in Usernames, p \in Passwords, s \in Salts :
          Signup(UserArgs(u, p), s)
    \/ \E u \in Usernames, p \in Passwords, d \in issued \cup {NoToken} :
          Login(UserArgs(u, p), d, MaxHeld)
    \/ Tick

SpecCred == InitCred /\ [][NextCred]_vars

(* The guard: one user, the clock, and GET /notes under every shape of
   header and every kind of token *)

InitGuard == InitWith({}, {})

NextGuard ==
    \/ Signup(UserArgs("alice", "pw1"), "salt1")
    \/ \E d \in issued \cup {NoToken} :
          Login(UserArgs("alice", "pw1"), d, MaxHeld)
    \/ \E h \in AllHeaders : GetNotes(h)
    \/ Tick

SpecGuard == InitGuard /\ [][NextGuard]_vars

(* Broadcast: one user, several WebSockets *)

InitBroadcast == InitWith(1..MaxConnsB, 1..MaxCallsB)

NextBroadcast ==
    \/ Signup(UserArgs("alice", "pw1"), "salt1")
    \/ \E d \in issued \cup {NoToken} :
          Login(UserArgs("alice", "pw1"), d, MaxIssued)
    \/ \E r \in Slots, h \in {Bearer(t) : t \in issued} :
          noteSeq < MaxNotesB /\ AddNote(r, h, NoteArgs("x", "y"))
    \/ \E r \in Slots, h \in {Bearer(t) : t \in issued}, k \in 1..MaxNotesB :
          DeleteNote(r, h, IdArgs(k))
    \/ \E r \in Slots : SendReturns(r)
    \/ \E r \in Slots : SendRaises(r)
    \/ \E c \in Conns : WsConnect(c)
    \/ \E c \in Conns : PeerGone(c)
    \/ \E c \in Conns : WsDisconnect(c)
    \/ \E c \in Conns : WsReceiveFails(c)

SpecBroadcast == InitBroadcast /\ [][NextBroadcast]_vars

(* The protected operations: one user, the clock observed on the whole
   hours, one WebSocket, and the three note endpoints under every shape of
   header and every kind of token *)

InitProtected == InitWith({1}, {1})

ProtectedHeaders == AllHeaders \cup {Bearer(t) : t \in Stray}

NextProtected ==
    \/ Signup(UserArgs("alice", "pw1"), "salt1")
    \/ \E d \in issued \cup {NoToken} :
          Login(UserArgs("alice", "pw1"), d, MaxHeld)
    \/ \E h \in ProtectedHeaders : GetNotes(h)
    \/ \E r \in Slots, h \in ProtectedHeaders :
          noteSeq < MaxNotesB /\ AddNote(r, h, NoteArgs("x", "y"))
    \/ \E r \in Slots, h \in ProtectedHeaders, k \in 1..MaxNotesB :
          DeleteNote(r, h, IdArgs(k))
    \/ \E r \in Slots : SendReturns(r)
    \/ \E c \in Conns : WsConnect(c)
    \/ Tick /\ now' % HourTicks = 0

SpecProtected == InitProtected /\ [][NextProtected]_vars

(* Concurrent deletes: one user, one WebSocket, several requests in
   flight *)

InitDeletes == InitWith({1}, 1..MaxCallsD)

NextDeletes ==
    \/ Signup(UserArgs("alice", "pw1"), "salt1")
    \/ \E d \in issued \cup {NoToken} :
          Login(UserArgs("alice", "pw1"), d, MaxHeld)
    \/ \E r \in Slots, h \in {Bearer(t) : t \in issued} :
          noteSeq < MaxNotes /\ AddNote(r, h, NoteArgs("x", "y"))
    \/ \E r \in Slots, h \in {Bearer(t) : t \in issued}, k \in 1..MaxNotes :
          DeleteNote(r, h, IdArgs(k))
    \/ \E r \in Slots : SendReturns(r)
    \/ \E r \in Slots : SendRaises(r)
    \/ \E c \in Conns : WsConnect(c)
    \/ \E c \in Conns : PeerGone(c)
    \/ \E c \in Conns : WsDisconnect(c)

SpecDeletes == InitDeletes /\ [][NextDeletes]_vars

(* Signup under concurrency: the signup requests of the thread pool,
   interleaved statement by statement *)

InitSignup == InitWith({}, 1..MaxThreads)

NextSignup ==
    \/ \E r \in Slots, u \in Usernames, p \in Passwords :
          SignupSelect(r, UserArgs(u, p))
    \/ \E r \in Slots, s \in Salts : SignupInsert(r, s)

SpecSignup == InitSignup /\ [][NextSignup]_vars

(* A stalled peer: one user, WebSockets whose peers stay and may stop
   reading.  The event loop resumes every coroutine whose awaited send can
   complete, hence the weak fairness of SendReturns; a send to a stalled
   peer cannot. *)

InitStall == InitWith(1..MaxConnsS, 1..MaxCallsB)

NextStall ==
    \/ Signup(UserArgs("alice", "pw1"), "salt1")
    \/ \E d \in issued \cup {NoToken} :
          Login(UserArgs("alice", "pw1"), d, MaxHeld)
    \/ \E r \in Slots, h \in {Bearer(t) : t \in issued} :
          noteSeq < MaxNotesB /\ AddNote(r, h, NoteArgs("x", "y"))
    \/ \E r \in Slots, h \in {Bearer(t) : t \in issued}, k \in 1..MaxNotesB :
          DeleteNote(r, h, IdArgs(k))
    \/ \E r \in Slots : SendReturns(r)
    \/ \E c \in Conns : WsConnect(c)
    \/ \E c \in Conns : PeerStalls(c)

EventLoop == \A r \in 1..MaxCallsB : WF_vars(SendReturns(r))

SpecStall == InitStall /\ [][NextStall]_vars /\ EventLoop

----------------------------------------------------------------------------
(* Vocabulary of the properties *)

\* the step completes an HTTP exchange
NewExchange == response'.n # response.n

\* the header is "Bearer <token>" with a token that login returned
IssuedBearer(authorization) ==
    /\ authorization.present
    /\ Len(authorization.value) = 3
    /\ authorization.value[1] = Word("Bearer")
    /\ authorization.value[2] = Space
    /\ authorization.value[3] \in issued

TokenIn(authorization) == authorization.value[3]

\* the requests whose handler ran its database part in this step: the ones
\* that went on into a send, and the one answered at once
StepRequests ==
    {[op |-> calls'[r].op, authorization |-> calls'[r].authorization,
      args |-> calls'[r].args] :
        r \in {q \in Slots : calls[q].pc = "idle" /\ calls'[q].pc = "sending"}}
    \cup (IF NewExchange /\ calls' = calls
            THEN {[op |-> response'.op,
                   authorization |-> response'.authorization,
                   args |-> response'.args]}
            ELSE {})

\* the username a note id was created under
OwnerOf(note_id) == created[note_id].owner

UserId(username) ==
    (CHOOSE u \in Range(users) : u.username = username).id

NotFoundOrUnauthorized == "Note not found or unauthorized"

----------------------------------------------------------------------------
(* C1: ownership isolation.  In every step: a successful GET /notes
   returns only notes created with a token of the same subject as the token
   presented; a note leaves the table only in a DELETE presented with a token
   of the subject that created it; and a DELETE presented with an issued
   token of another subject than the note's creator, like a DELETE of an id
   that has no note, ends 404 "Note not found or unauthorized" with the
   notes table unchanged. *)
C1_OwnershipIsolation ==
    [][ /\ (NewExchange /\ response'.op = "get_notes"
              /\ response'.status = 200)
           => \A k \in 1..Len(response'.body.notes) :
                 OwnerOf(response'.body.notes[k].id)
                   = TokenIn(response'.authorization).sub
        /\ \A n \in Range(notes) :
              n \notin Range(notes')
                => \E q \in StepRequests :
                      /\ q.op = "delete_note"
                      /\ q.args.note_id = n.id
                      /\ IssuedBearer(q.authorization)
                      /\ TokenIn(q.authorization).sub = OwnerOf(n.id)
        /\ \A q \in StepRequests :
              ( /\ q.op = "delete_note"
                /\ IssuedBearer(q.authorization)
                /\ \A n \in Range(notes) :
                      n.id = q.args.note_id
                        => OwnerOf(n.id) # TokenIn(q.authorization).sub )
              => /\ NewExchange
                 /\ response'.status = 404
                 /\ response'.detail = NotFoundOrUnauthorized
                 /\ notes' = notes
      ]_vars

\* B's DELETE of a note that A created has been answered 404 and the note
\* is still in the table
C1_Witness ==
    /\ response.op = "delete_note"
    /\ response.status = 404
    /\ IssuedBearer(response.authorization)
    /\ \E n \in Range(notes) :
          /\ n.id = response.args.note_id
          /\ OwnerOf(n.id) # TokenIn(response.authorization).sub

(* C7: delete by owner.  A DELETE /notes/{id} presented with an issued
   token whose user owns no note of that id ends 404 "Note not found or
   unauthorized", changes no note and starts no broadcast; one whose user
   owns the note removes that row and no other, keeps the order of the rest
   and leaves the users table as it was. *)
C7_DeleteByOwner ==
    [][ \A q \in StepRequests :
          (q.op = "delete_note" /\ IssuedBearer(q.authorization))
          => LET uid == UserId(TokenIn(q.authorization).sub)
                 owned == {k \in 1..Len(notes) :
                             /\ notes[k].id = q.args.note_id
                             /\ notes[k].user_id = uid}
             IN  /\ users' = users
                 /\ owned = {}
                      => /\ NewExchange
                         /\ response'.status = 404
                         /\ response'.detail = NotFoundOrUnauthorized
                         /\ notes' = notes
                         /\ calls' = calls
                 /\ owned # {}
                      => /\ Cardinality(owned) = 1
                         /\ Len(notes') = Len(notes) - 1
                         /\ \A k \in 1..Len(notes') :
                               notes'[k] = IF \E j \in owned : j <= k
                                             THEN notes[k + 1] ELSE notes[k]
      ]_vars

\* the owner's DELETE succeeded and a note of the other user is still there
C7_Witness ==
    /\ response.op = "delete_note"
    /\ response.status = 200
    /\ IssuedBearer(response.authorization)
    /\ created[response.args.note_id].deleted
    /\ \E n \in Range(notes) :
          OwnerOf(n.id) # TokenIn(response.authorization).sub

\* what the history says user `username` should be shown
Expected(username) ==
    LET all == [k \in 1..Len(created) |->
                  [id |-> k, title |-> created[k].title,
                   content |-> created[k].content]]
    IN  SelectSeq(all, LAMBDA e : /\ created[e.id].owner = username
                                  /\ ~created[e.id].deleted)

(* C8: listing is exact.  A GET /notes presented with an issued token of
   user U answers 200 with exactly the notes U created and nobody has
   deleted, in creation order, each with the id, title and content of its
   creation, and the step changes nothing but the response. *)
C8_ListingExact ==
    [][ (NewExchange /\ response'.op = "get_notes"
           /\ IssuedBearer(response'.authorization))
        => /\ response'.status = 200
           /\ response'.body.notes
                = Expected(TokenIn(response'.authorization).sub)
           /\ UNCHANGED <<users, notes, noteSeq, now, issued, websockets,
                          active_connections, calls, created, signedUp>>
      ]_vars

\* a listing that shows one note, leaves out a note its user has deleted
\* and leaves out a note of the other user
C8_Witness ==
    /\ response.op = "get_notes"
    /\ response.status = 200
    /\ Len(response.body.notes) = 1
    /\ \E k \in 1..Len(created) :
          /\ created[k].deleted
          /\ created[k].owner = TokenIn(response.authorization).sub
          /\ k < response.body.notes[1].id
    /\ Len(notes) = 1

----------------------------------------------------------------------------
(* Vocabulary of the guard's properties *)

\* the non-whitespace runs of a header value, by position
Parts(authorization) ==
    {k \in 1..Len(authorization.value) :
        authorization.value[k].typ # "space"}

\* exactly two parts, the first one "bearer" in any case
TwoPartBearer(authorization) ==
    /\ authorization.present
    /\ Cardinality(Parts(authorization)) = 2
    /\ authorization.value[1] \in
          {Word("Bearer"), Word("bearer"), Word("BEARER")}

\* the second part of a two-part header
Credential(authorization) ==
    authorization.value[Len(authorization.value)]

MissingHeader == "Authorization header missing"
MalformedHeader == "Invalid authorization header format"
InvalidToken == "Invalid token"
ExpiredToken == "Token has expired"

\* a protected request is answered in this step
Guarded == NewExchange /\ response'.op = "get_notes"

(* C4: token validation order.  For every two-part bearer header: a token
   that login did not issue (garbage, signed with another key, or an issued
   token with its subject or expiry rewritten) is answered 401 "Invalid
   token" whatever its expiry; an issued token whose expiry instant is
   reached is answered 401 "Token has expired"; an issued token before its
   expiry is accepted, and nothing else is. *)
C4_ValidationOrder ==
    [][ (Guarded /\ TwoPartBearer(response'.authorization))
        => LET t == Credential(response'.authorization) IN
           /\ t \notin issued
                => /\ response'.status = 401
                   /\ response'.detail = InvalidToken
           /\ (t \in issued /\ t.exp * TicksPerSecond <= now)
                => /\ response'.status = 401
                   /\ response'.detail = ExpiredToken
           /\ (t \in issued /\ t.exp * TicksPerSecond > now)
                => response'.status = 200
           /\ response'.status = 200
                => (t \in issued /\ t.exp * TicksPerSecond > now)
      ]_vars

\* a token with a rewritten payload and an expiry still ahead was answered
\* "Invalid token"
C4_Witness ==
    /\ response.op = "get_notes"
    /\ TwoPartBearer(response.authorization)
    /\ response.detail = InvalidToken
    /\ Credential(response.authorization).typ = "JWT"
    /\ Credential(response.authorization).sig[1] = SECRET_KEY
    /\ Credential(response.authorization).exp * TicksPerSecond > response.at

(* C5: signup rejects an existing username.  A POST /signup whose username
   has a row in users ends 400 "Username already exists" whatever the
   password, and leaves the users table, password hashes included, as it
   was. *)
C5_SignupRejectsExisting ==
    [][ ( /\ NewExchange
          /\ response'.op = "signup"
          /\ \E u \in Range(users) : u.username = response'.args.username )
        => /\ response'.status = 400
           /\ response'.detail = "Username already exists"
           /\ users' = users
      ]_vars

\* a second signup under another password than the first was answered 400
C5_Witness ==
    /\ response.op = "signup"
    /\ response.status = 400
    /\ <<response.args.username, response.args.password>> \notin signedUp
    /\ \E u \in Range(users) : u.username = response.args.username

(* C6 as stated: an absent header is answered 401 "Authorization header
   missing", and every present header that is not exactly two parts with a
   first part "bearer" in any case is answered 401 "Invalid authorization
   header format". *)
C6_AsStated ==
    [][ Guarded
        => /\ ~response'.authorization.present
                => /\ response'.status = 401
                   /\ response'.detail = MissingHeader
           /\ ( /\ response'.authorization.present
                /\ ~TwoPartBearer(response'.authorization) )
                => /\ response'.status = 401
                   /\ response'.detail = MalformedHeader
      ]_vars

(* C6, amended: an absent or empty header is answered 401 "Authorization
   header missing"; a present, non-empty header that is not exactly two
   parts with a first part "bearer" in any case is answered 401 "Invalid
   authorization header format", whatever token it carries. *)
C6_HeaderHandling ==
    [][ Guarded
        => /\ ( \/ ~response'.authorization.present
                \/ response'.authorization.value = <<>> )
                => /\ response'.status = 401
                   /\ response'.detail = MissingHeader
           /\ ( /\ response'.authorization.present
                /\ response'.authorization.value # <<>>
                /\ ~TwoPartBearer(response'.authorization) )
                => /\ response'.status = 401
                   /\ response'.detail = MalformedHeader
      ]_vars

\* "Token <token>" with a token that login issued and that has not expired
\* was answered "Invalid authorization header format"
C6_Witness ==
    /\ response.op = "get_notes"
    /\ response.status = 401
    /\ response.detail = MalformedHeader
    /\ response.authorization.present
    /\ response.authorization.value[1] = Word("Token")
    /\ Credential(response.authorization) \in issued
    /\ Credential(response.authorization).exp * TicksPerSecond > response.at

\* the token a login returned
Granted == response'.body.access_token

(* C9 as stated: the token of a successful login has the login's username
   as its subject and an expiry exactly one hour after the instant of
   issuance. *)
C9_AsStated ==
    [][ (NewExchange /\ response'.op = "login" /\ response'.status = 200)
        => /\ Granted.sub = response'.args.username
           /\ Granted.exp * TicksPerSecond = now + HourTicks
      ]_vars

(* C9, amended: the token of a successful login has the login's username
   as its subject, and its expiry is the whole second in which the instant
   one hour after issuance falls: at most one hour after issuance, and less
   than a second short of it. *)
C9_TokenIssuance ==
    [][ (NewExchange /\ response'.op = "login" /\ response'.status = 200)
        => /\ Granted.sub = response'.args.username
           /\ Granted.exp * TicksPerSecond <= now + HourTicks
           /\ now + HourTicks < (Granted.exp + 1) * TicksPerSecond
      ]_vars

\* a token issued between two whole seconds
C9_Witness ==
    /\ response.op = "login"
    /\ response.status = 200
    /\ response.at % TicksPerSecond # 0
    /\ response.body.access_token.sub = response.args.username
    /\ response.body.access_token.exp * TicksPerSecond
          < response.at + HourTicks

(* C10: login.  A POST /login returns a token exactly when the username
   signed up with the password supplied; every other login, unknown
   username or wrong password alike, ends 401 "Invalid username or
   password" with no token; and no login changes the tables. *)
C10_Login ==
    [][ (NewExchange /\ response'.op = "login")
        => /\ response'.status = 200
                <=> <<response'.args.username, response'.args.password>>
                       \in signedUp
           /\ response'.status = 200
                => /\ Granted.typ = "JWT"
                   /\ Granted \in issued'
           /\ response'.status # 200
                => /\ response'.status = 401
                   /\ response'.detail = "Invalid username or password"
                   /\ Granted = NoToken
                   /\ issued' = issued
           /\ UNCHANGED <<users, notes, noteSeq, now, websockets,
                          active_connections, calls, created, signedUp>>
      ]_vars

\* a login under a registered username with another password than the one
\* signed up with was answered 401
C10_Witness ==
    /\ response.op = "login"
    /\ response.status = 401
    /\ <<response.args.username, response.args.password>> \notin signedUp
    /\ \E u \in Range(users) : u.username = response.args.username

----------------------------------------------------------------------------
(* Vocabulary of the broadcast's properties *)

\* the broadcast of slot r ends in this step
BroadcastEnds(r) == calls[r].pc = "sending" /\ calls'[r].pc # "sending"

\* the connections whose send_text has returned by the end of the step in
\* which the broadcast of slot r ends
Delivered(r) ==
    IF response'.status = 200
      THEN Append(calls[r].sent, calls[r].cur) ELSE calls[r].sent

(* C2 as stated: when the broadcast of a note mutation ends, every
   connection that was registered when it began, is registered still and
   has its peer there has been sent the event exactly once, and a
   connection closed before the mutation has been sent nothing. *)
C2_AsStated ==
    [][ \A r \in Slots : BroadcastEnds(r)
          => \A c \in Conns :
                /\ ( /\ c \in Range(calls[r].snapshot)
                     /\ c \in Range(active_connections')
                     /\ websockets'[c] = "open" )
                     => Count(c, Delivered(r)) = 1
                /\ c \in calls[r].closed => Count(c, Delivered(r)) = 0
      ]_vars

(* C3 as stated: when the send to a registered connection fails during a
   broadcast, that connection is removed from the registry and the
   broadcast goes on to the connections after it. *)
C3_AsStated ==
    [][ \A r \in Slots : SendRaises(r)
          => /\ calls[r].cur \notin Range(active_connections')
             /\ calls[r].i + 1 < Len(active_connections')
                  => calls'[r].pc = "sending"
      ]_vars

(* C11 as stated: a request that has committed its change and whose
   broadcast ends, with a failed send or without, is answered 200. *)
C11_AsStated ==
    [][ \A r \in Slots : BroadcastEnds(r)
          => /\ NewExchange
             /\ response'.op = calls[r].op
             /\ response'.status = 200
      ]_vars

(* C12 as stated: a connection is in the registry from the moment its
   handshake is accepted, and no connection whose receive loop has ended
   is in the registry. *)
C12_AsStated ==
    \A c \in Conns :
       /\ websockets[c] \in {"open", "stalled", "gone"}
             => c \in Range(active_connections)
       /\ websockets[c] = "closed" => c \notin Range(active_connections)

(* C13 as stated: while a broadcast is under way no connection is added
   to or removed from the registry; when a broadcast ends without a failed
   send, every connection registered from its beginning to its end has been
   sent the event exactly once; and no send is begun to a connection that
   is not in the registry. *)
C13_AsStated ==
    [][ \A r \in Slots :
          /\ (calls[r].pc = "sending" /\ calls'[r].pc = "sending")
                => active_connections' = active_connections
          /\ (BroadcastEnds(r) /\ response'.status = 200)
                => \A c \in Conns :
                      ( /\ c \in Range(calls[r].snapshot)
                        /\ c \in Range(active_connections') )
                      => Count(c, Delivered(r)) = 1
          /\ (calls'[r].pc = "sending" /\ calls'[r] # calls[r])
                => calls'[r].cur \in Range(active_connections')
      ]_vars

(* C14 as stated: no username has two rows in users, and a signup request
   whose username has no row when its INSERT is due creates the row and is
   answered 200, while one whose username has a row by then, found by its
   own SELECT or inserted by another request since, is answered 400 and
   leaves the table as it was. *)
C14_AsStated ==
    /\ [](\A i, j \in 1..Len(users) :
            users[i].username = users[j].username => i = j)
    /\ [][ (NewExchange /\ response'.op = "signup")
            => IF \E u \in Range(users) :
                     u.username = response'.args.username
                 THEN /\ response'.status = 400
                      /\ users' = users
                 ELSE /\ response'.status = 200
                      /\ Len(users') = Len(users) + 1
          ]_vars

(* C15 as stated: a request that has committed its change and is sending
   the event eventually gets its response, and every connection that was
   registered when the broadcast began and whose peer reads is eventually
   sent the event, whether or not another peer has stalled. *)
C15_AsStated ==
    \A r \in 1..MaxCallsB :
       /\ (calls[r].pc = "sending") ~> (calls[r].pc = "idle")
       /\ \A c \in 1..MaxConnsS :
             ( /\ calls[r].pc = "sending"
               /\ c \in Range(calls[r].snapshot)
               /\ websockets[c] = "open" )
             ~> ( \/ c \in Range(calls[r].sent)
                  \/ calls[r].pc = "idle"
                  \/ websockets[c] # "open" )

----------------------------------------------------------------------------
(* Vocabulary of the event properties *)

\* the broadcast of slot r begins to send in this step
BroadcastBegins(r) == calls[r].pc = "idle" /\ calls'[r].pc = "sending"

\* the step inserts one row at the end of notes and commits it
Inserted ==
    /\ Len(notes') = Len(notes) + 1
    /\ SubSeq(notes', 1, Len(notes)) = notes

\* the step deletes the row of id k from notes and commits
Deleted(k) ==
    /\ \E n \in Range(notes) : n.id = k
    /\ notes' = SelectSeq(notes, LAMBDA n : n.id # k)

(* C16: events follow committed mutations.  A broadcast begins only in the
   step of a POST /notes that inserts a row, with "New note added", or of a
   DELETE /notes/{id} that deletes the row of that id, with "Note with ID
   {id} deleted"; a step that changes notes begins exactly one broadcast,
   which over an empty registry is over at once with the 200 response; a
   step that leaves notes as it was (GET /notes, signup, login, a request
   answered with an error) begins none; and a pending send of "Note with ID
   {id} deleted" finds the note of that id deleted. *)
C16_EventsFollowCommits ==
    [][ /\ \A r \in Slots : BroadcastBegins(r)
              => \/ /\ calls'[r].op = "add_note"
                    /\ calls'[r].message = NewNoteAdded
                    /\ Inserted
                 \/ /\ calls'[r].op = "delete_note"
                    /\ calls'[r].message = NoteDeleted(calls'[r].args.note_id)
                    /\ Deleted(calls'[r].args.note_id)
        /\ notes' # notes
              => IF active_connections = <<>>
                   THEN /\ calls' = calls
                        /\ NewExchange
                        /\ response'.op \in {"add_note", "delete_note"}
                        /\ response'.status = 200
                   ELSE /\ Cardinality({r \in Slots : BroadcastBegins(r)}) = 1
                        /\ ~NewExchange
        /\ notes' = notes => \A r \in Slots : ~BroadcastBegins(r)
        /\ ( /\ NewExchange
             /\ \/ response'.op \in {"get_notes", "signup", "login"}
                \/ response'.status \in {400, 401, 404} )
              => /\ notes' = notes
                 /\ calls' = calls
        /\ \A r \in Slots :
              (calls'[r].pc = "sending" /\ calls'[r].op = "delete_note")
              => /\ created'[calls'[r].message.note_id].deleted
                 /\ \A n \in Range(notes') :
                       n.id # calls'[r].message.note_id
      ]_vars

\* "Note with ID 2 deleted" is being sent, note 2 is gone from the table
\* and note 1 is still there
C16_Witness ==
    \E r \in Slots :
       /\ calls[r].pc = "sending"
       /\ calls[r].message = NoteDeleted(2)
       /\ created[2].deleted
       /\ \E n \in Range(notes) : n.id = 1
       /\ \A n \in Range(notes) : n.id # 2

----------------------------------------------------------------------------
(* Vocabulary of the authorization property *)

Protected == {"get_notes", "add_note", "delete_note"}

\* the token carries a signature made with the server's key over its own
\* subject and expiry
WellSigned(token) ==
    /\ token.typ = "JWT"
    /\ token.sig = <<SECRET_KEY, token.sub, token.exp>>

\* the header is missing or empty, or malformed, or its token is badly
\* signed, or expired, or names a subject without a row in users
AuthorizationFails(authorization) ==
    \/ ~authorization.present
    \/ authorization.value = <<>>
    \/ ~TwoPartBearer(authorization)
    \/ ~WellSigned(Credential(authorization))
    \/ Credential(authorization).exp * TicksPerSecond <= now
    \/ \A u \in Range(users) :
          u.username # Credential(authorization).sub

(* C17: authorization precedes every protected operation.  A GET /notes,
   POST /notes or DELETE /notes/{id} whose authorization fails is answered
   401 at once, with no notes and no message in the body, and the step
   leaves users, notes, the note sequence, the WebSockets, the registry and
   the requests in flight as they were, so that no broadcast begins. *)
C17_AuthorizationFirst ==
    [][ \A q \in StepRequests :
          (q.op \in Protected /\ AuthorizationFails(q.authorization))
          => /\ NewExchange
             /\ response'.status = 401
             /\ response'.body = NoBody
             /\ UNCHANGED <<users, notes, noteSeq, issued, websockets,
                            active_connections, calls, created, signedUp>>
      ]_vars

\* a DELETE of a note that is in the table, presented with a well-signed,
\* unexpired token whose subject has no row in users, was answered 401
\* "User not found" with a connection registered
C17_Witness ==
    /\ response.op = "delete_note"
    /\ response.status = 401
    /\ response.detail = "User not found"
    /\ WellSigned(Credential(response.authorization))
    /\ \E n \in Range(notes) : n.id = response.args.note_id
    /\ active_connections # <<>>

(* C18: UserNotFound is unreachable for issued tokens.  No step updates
   or deletes a row of users; the subject of every token that login has
   returned has a row in users; and no protected request presented with an
   issued token, expired or not, is answered "User not found". *)
C18_UserNotFoundUnreachable ==
    /\ [](\A t \in issued : \E u \in Range(users) : u.username = t.sub)
    /\ [][ /\ Len(users') >= Len(users)
           /\ SubSeq(users', 1, Len(users)) = users
           /\ \A q \in StepRequests :
                 ( /\ q.op \in Protected
                   /\ TwoPartBearer(q.authorization)
                   /\ Credential(q.authorization) \in issued )
                 => ~( /\ NewExchange
                       /\ calls' = calls
                       /\ response'.detail = "User not found" )
         ]_vars

\* a POST /notes presented, after the clock has moved, with an issued and
\* unexpired token has been answered 200
C18_Witness ==
    /\ response.op = "add_note"
    /\ response.status = 200
    /\ response.at > 0
    /\ TwoPartBearer(response.authorization)
    /\ Credential(response.authorization) \in issued
    /\ Credential(response.authorization).exp * TicksPerSecond > response.at

(* C19: note ownership.  In every reachable state the user_id of every
   note is the id of a row of users, the row of the username that was the
   subject of the token of the request that created the note; and a step
   that inserts a note is a POST /notes with an issued token, the new row
   carrying the id of that token's subject and the title and content of
   the request body. *)
C19_NoteOwnership ==
    /\ [](\A n \in Range(notes) :
            \E u \in Range(users) :
               /\ u.id = n.user_id
               /\ u.username = OwnerOf(n.id))
    /\ [][ Inserted
            => \E q \in StepRequests :
                  /\ q.op = "add_note"
                  /\ IssuedBearer(q.authorization)
                  /\ notes'[Len(notes')] =
                        [id |-> noteSeq + 1,
                         title |-> q.args.title,
                         content |-> q.args.content,
                         user_id |-> UserId(TokenIn(q.authorization).sub)]
          ]_vars

\* the second user of the table owns a note, and so does the first
C19_Witness ==
    /\ Len(users) = 2
    /\ \E n, m \in Range(notes) :
          /\ n.user_id = users[1].id
          /\ m.user_id = users[2].id
          /\ OwnerOf(m.id) = users[2].username

(* C20 as stated: of the owner's DELETE requests for one note, the one
   that finds the note deletes it, starts the broadcast "Note with ID {id}
   deleted" and is answered 200; every one that comes after it, the first
   still sending or not, is answered 404 and starts no broadcast. *)
C20_AsStated ==
    [][ /\ \A q \in StepRequests :
              (q.op = "delete_note" /\ IssuedBearer(q.authorization))
              => IF \/ q.args.note_id > Len(created)
                    \/ created[q.args.note_id].deleted
                   THEN /\ NewExchange
                        /\ response'.status = 404
                        /\ calls' = calls
                        /\ notes' = notes
                   ELSE /\ created'[q.args.note_id].deleted
                        /\ Deleted(q.args.note_id)
                        /\ \/ \E r \in Slots :
                                /\ BroadcastBegins(r)
                                /\ calls'[r].message
                                     = NoteDeleted(q.args.note_id)
                           \/ NewExchange /\ response'.status = 200
        /\ \A r \in Slots :
              (BroadcastEnds(r) /\ calls[r].op = "delete_note")
              => /\ NewExchange
                 /\ response'.status = 200
      ]_vars

====
